---- MODULE Spec2Model ----
(***************************************************************************)
(* KubernetesContainerManager (singa_auto/container/kubernetes_operation)  *)
(* as a state machine: the cluster control plane holds deployments,        *)
(* services and ingresses; callers run create_service, destroy_service and *)
(* update_ingress against it, the two creation calls through _retry.       *)
(*                                                                         *)
(* Python's None is the empty sequence and a present value x is <<x>>, so  *)
(* that an optional value compares with any other optional value.          *)
(***************************************************************************)
EXTENDS Integers, Sequences, FiniteSets, TLC

\* Longest list of path rules an ingress_body carries.
MaxPaths == 2

RETRY_WAIT_SECS == 1
RETRY_TIMES == 5

None == <<>>
Some(x) == <<x>>

\* The callers: one in the sequential specifications, both in the race.
Procs == {1, 2}

\* Inputs of create_service / destroy_service.
Names == {"svc1", "svc2"}
PublishPorts == {None, <<30080, 8080>>}
ReplicaCounts == {1, 2}
GpuCounts == {0, 1}

\* Longest mounts mapping a request carries.
MaxMounts == 2

\* The other inputs of create_service. A dict is the sequence of its
\* (key, value) pairs in iteration order, its keys distinct.
DockerImages == {"img:1", "img:2"}
LaunchArgs == {<<>>, <<"--port">>, <<"--port", "--debug">>, <<"--debug", "--port">>}
EnvKeys == {"HOST", "MODE"}
EnvValues == {"x"}
HostPaths == {"/h1", "/h2", "/h3"}
ContainerPaths == {"/c1", "/c2"}
WideGpuCounts == {0, 1, 2}

\* Inputs of update_ingress: the ingress names, in the order the control plane
\* lists them, and the path rules an ingress_body is made of.
IngOrder == <<"ing1", "ing2">>
IngNames == {IngOrder[i] : i \in 1..Len(IngOrder)}
PathInfos ==
  {[path |-> "/a", backend |-> [serviceName |-> "svc1", servicePort |-> 8080]],
   [path |-> "/b", backend |-> [serviceName |-> "svc2", servicePort |-> 8081]]}

\* The two functions create_service wraps with _retry.
CreateNamespacedService == "create_namespaced_service"
CreateNamespacedDeployment == "create_namespaced_deployment"

\* The other remote calls: destroy_service's two and update_ingress's three.
DeleteDeploymentApi == "delete_namespaced_deployment"
DeleteServiceApi == "delete_namespaced_service"
DeleteApis == {DeleteDeploymentApi, DeleteServiceApi}
ListApi == "list_namespaced_ingress_with_http_info"
CreateApi == "create_namespaced_ingress_with_http_info"
ReplaceApi == "replace_namespaced_ingress_with_http_info"
SleepApi == "time.sleep"

VARIABLES
  deployments,     \* control plane: names of the live deployments
  services,        \* control plane: names of the live services
  ingresses,       \* control plane: ingress name -> None | Some(manifest)
  pc,              \* per caller: position in the running operation
  op,              \* per caller: the running operation
  service_name, publish_port, replicas, gpus, hostname,
  docker_image, args, environment_vars, mounts,
  service_config,    \* the manifest line 144 builds, when it has
  deployment_config, \* the manifest line 148 builds, when it has
  func,            \* the function the running _retry wraps
  no,              \* _retry's loop variable
  e,               \* _retry's caught exception
  ret,             \* return value of retried_func
  service_obj, deployment_obj,
  service,         \* destroy_service's argument
  result,          \* what the operation returned to its caller
  raised,          \* what the operation raised to its caller
  log,             \* per caller: the remote calls and sleeps of the running operation
  ingress_name, ingress_body, body, ingress_list, ingress_names,
  cluster_before,  \* the control plane's state when the running operation began
  prev,            \* the caller's previous call, when it succeeded
  writes           \* callers whose create/replace reached the control plane, in order

clusterVars == <<deployments, services, ingresses>>
ctlVars == <<pc, op, result, raised, log>>
svcVars == <<service_name, publish_port, replicas, gpus, hostname, func, no, e,
             ret, service_obj, deployment_obj, service>>
ingVars == <<ingress_name, ingress_body, body, ingress_list, ingress_names,
             cluster_before, prev, writes>>
cfgVars == <<docker_image, args, environment_vars, mounts, service_config,
             deployment_config>>
vars == <<clusterVars, ctlVars, svcVars, cfgVars, ingVars>>

----------------------------------------------------------------------------
(* Values *)

\* Sequences over S of length at most n.
SeqsUpTo(S, n) == UNION {[1..k -> S] : k \in 0..n}

\* The dicts with keys in K and values in V of at most n entries.
Dicts(K, V, n) ==
  {d \in SeqsUpTo(K \X V, n) :
     \A i, j \in 1..Len(d) : d[i][1] = d[j][1] => i = j}

Exception(kind, f, n) == [kind |-> kind, func |-> f, no |-> n]

\* The object a successful create call returns; uid tells the calls apart.
ApiObject(f, name, n) == [kind |-> f, name |-> name, uid |-> n]

ContainerService(id, host, port, info) ==
  [id |-> id, hostname |-> host, exposed_port |-> port, info |-> info]

\* One remote call (or sleep) as the caller saw it: the function, the name
\* it addresses, its argument (a manifest, the seconds to sleep), and whether
\* it took effect at the control plane.
LogEntry(api, name, arg, n, effect, r, x) ==
  [api |-> api, name |-> name, arg |-> arg, no |-> n, effect |-> effect,
   ret |-> r, exc |-> x]

Calls(p, api) == SelectSeq(log[p], LAMBDA en : en.api = api)

----------------------------------------------------------------------------
(* The manifests create_service builds *)

\* Python's str() of a natural number.
RECURSIVE str(_)
str(n) ==
  IF n < 10 THEN <<"0", "1", "2", "3", "4", "5", "6", "7", "8", "9">>[n + 1]
  ELSE str(n \div 10) \o str(n % 10)

\* Faulty variant of VolumeName: the count is taken after its increment.
VolumeNameFromOne(mounts_count) == "v" \o str(mounts_count + 1)

\* Lines 195 and 199: 'v' + str(mounts_count).
VolumeName(mounts_count) == "v" \o str(mounts_count)

\* Lines 190-204: the loop over mounts.items(), mounts_count from 0.
VolumeMounts(m) ==
  [i \in 1..Len(m) |-> [name |-> VolumeName(i - 1), mountPath |-> m[i][2]]]

Volumes(m) ==
  [i \in 1..Len(m) |-> [name |-> VolumeName(i - 1),
                        hostPath |-> [path |-> m[i][1]]]]

\* Line 209.
Env(ev) == [i \in 1..Len(ev) |-> [name |-> ev[i][1], value |-> ev[i][2]]]

\* Faulty variant of HasGpuLimit: a limit of zero GPUs is written too.
HasGpuLimitAlways(g) == g >= 0

\* Line 211.
HasGpuLimit(g) == g > 0

\* Lines 187-190 and 209-215: the container, with resources only under
\* line 211's test.
Container(name, image, ev, m, g) ==
  IF HasGpuLimit(g)
    THEN [name |-> name, image |-> image, volumeMounts |-> VolumeMounts(m),
          env |-> Env(ev),
          resources |-> [limits |-> [k \in {"nvidia.com/gpu"} |-> g]]]
    ELSE [name |-> name, image |-> image, volumeMounts |-> VolumeMounts(m),
          env |-> Env(ev)]

\* Lines 166-216. The parameters args and publish_port are not read.
_create_deployment_config(name, image, r, a, ev, m, port, g) ==
  [apiVersion |-> "apps/v1",
   kind |-> "Deployment",
   metadata |-> [name |-> name, labels |-> [name |-> name]],
   spec |-> [replicas |-> r,
             selector |-> [matchLabels |-> [name |-> name]],
             template |-> [metadata |-> [labels |-> [name |-> name]],
                           spec |-> [containers |-> <<Container(name, image, ev, m, g)>>,
                                     volumes |-> Volumes(m)]]]]

\* Faulty variant of PortRule: the two ports of publish_port exchanged.
PortRuleSwapped(port) ==
  [port |-> port[1], targetPort |-> port[1], nodePort |-> port[2]]

\* Lines 239-243: publish_port is (external port, internal port), both
\* integers, which int() leaves as they are.
PortRule(port) ==
  [port |-> port[2], targetPort |-> port[2], nodePort |-> port[1]]

\* Faulty variant of ServiceSelector: the node placeholder for the name.
ServiceSelectorDefault(name) == [name |-> "default"]

\* Line 244.
ServiceSelector(name) == [name |-> name]

\* Lines 218-245. Only service_name and publish_port are read.
_create_service_config(name, image, r, a, ev, m, port, g) ==
  [apiVersion |-> "v1",
   kind |-> "Service",
   metadata |-> [name |-> name, labels |-> [name |-> name]],
   spec |-> IF port # None
              THEN [type |-> "NodePort", ports |-> <<PortRule(port)>>,
                    selector |-> ServiceSelector(name)]
              ELSE [selector |-> ServiceSelector(name)]]

\* The arguments of one create_service call.
Request(name, image, r, a, ev, m, port, g) ==
  [service_name |-> name, docker_image |-> image, replicas |-> r, args |-> a,
   environment_vars |-> ev, mounts |-> m, publish_port |-> port, gpus |-> g]

\* The requests of the service specification: every name, port, replica
\* count and GPU count with one image, argument list, variable and mount.
ServiceRequests ==
  {Request(n, "img:1", r, <<"--port">>, <<<<"HOST", "x">>>>, <<<<"/h1", "/c1">>>>,
           port, g) :
     n \in Names, r \in ReplicaCounts, port \in PublishPorts, g \in GpuCounts}

\* The requests of the manifest specification.
ManifestRequests ==
  {Request(n, image, r, a, ev, m, port, g) :
     n \in Names, image \in DockerImages, r \in ReplicaCounts, a \in LaunchArgs,
     ev \in Dicts(EnvKeys, EnvValues, Cardinality(EnvKeys)),
     m \in Dicts(HostPaths, ContainerPaths, MaxMounts),
     port \in PublishPorts, g \in WideGpuCounts}

----------------------------------------------------------------------------
(* The control plane *)

Cluster == [deployments |-> deployments, services |-> services,
            ingresses |-> ingresses]

\* What a create call can do for a name: succeed, fail without effect, or
\* (inject) take effect and lose the response. An existing name conflicts.
CreateOutcomes(exists, inject) ==
  IF exists
    THEN {[ok |-> FALSE, effect |-> FALSE, kind |-> "Conflict"]}
         \cup (IF inject THEN {[ok |-> FALSE, effect |-> FALSE, kind |-> "Timeout"]}
                         ELSE {})
    ELSE {[ok |-> TRUE, effect |-> TRUE, kind |-> "Created"]}
         \cup (IF inject THEN {[ok |-> FALSE, effect |-> FALSE, kind |-> "Timeout"],
                               [ok |-> FALSE, effect |-> TRUE, kind |-> "Timeout"]}
                         ELSE {})

\* What a delete call can do for a name; a missing name is NotFound.
DeleteOutcomes(exists, inject) ==
  IF exists
    THEN {[ok |-> TRUE, effect |-> TRUE, kind |-> "Deleted"]}
         \cup (IF inject THEN {[ok |-> FALSE, effect |-> FALSE, kind |-> "Timeout"],
                               [ok |-> FALSE, effect |-> TRUE, kind |-> "Timeout"]}
                         ELSE {})
    ELSE {[ok |-> FALSE, effect |-> FALSE, kind |-> "NotFound"]}
         \cup (IF inject THEN {[ok |-> FALSE, effect |-> FALSE, kind |-> "Timeout"]}
                         ELSE {})

----------------------------------------------------------------------------
(* Initial state *)

InitCallers ==
  /\ pc = [p \in Procs |-> "idle"]
  /\ op = [p \in Procs |-> "none"]
  /\ service_name = [p \in Procs |-> ""]
  /\ publish_port = [p \in Procs |-> None]
  /\ replicas = [p \in Procs |-> 1]
  /\ gpus = [p \in Procs |-> 0]
  /\ hostname = [p \in Procs |-> ""]
  /\ docker_image = [p \in Procs |-> ""]
  /\ args = [p \in Procs |-> <<>>]
  /\ environment_vars = [p \in Procs |-> <<>>]
  /\ mounts = [p \in Procs |-> <<>>]
  /\ service_config = [p \in Procs |-> None]
  /\ deployment_config = [p \in Procs |-> None]
  /\ func = [p \in Procs |-> ""]
  /\ no = [p \in Procs |-> 0]
  /\ e = [p \in Procs |-> None]
  /\ ret = [p \in Procs |-> None]
  /\ service_obj = [p \in Procs |-> None]
  /\ deployment_obj = [p \in Procs |-> None]
  /\ service = [p \in Procs |-> None]
  /\ result = [p \in Procs |-> None]
  /\ raised = [p \in Procs |-> None]
  /\ log = [p \in Procs |-> <<>>]
  /\ ingress_name = [p \in Procs |-> ""]
  /\ ingress_body = [p \in Procs |-> None]
  /\ body = [p \in Procs |-> None]
  /\ ingress_list = [p \in Procs |-> None]
  /\ ingress_names = [p \in Procs |-> <<>>]
  /\ cluster_before = [p \in Procs |-> None]
  /\ prev = [p \in Procs |-> None]
  /\ writes = <<>>

\* An empty cluster.
Init ==
  /\ deployments = {}
  /\ services = {}
  /\ ingresses = [n \in IngNames |-> None]
  /\ InitCallers

----------------------------------------------------------------------------
(* _retry *)

\* Line 250.
wait_secs == RETRY_WAIT_SECS

\* Faulty variant of RetryExhausted: allows one attempt more.
RetryExhaustedLate(n) == n = RETRY_TIMES + 1

\* Faulty variant of RetryExhausted: gives up one attempt early.
RetryExhaustedEarly(n) == n = RETRY_TIMES - 1

\* Line 262: the attempt that just failed was the last one.
RetryExhausted(n) == n = RETRY_TIMES

\* Line 263: raise e.
Propagated(x) == x

\* Faulty variant of AfterAttempt: the value of func is not returned from
\* inside the loop, which goes on until its last iteration.
AfterAttemptNoReturn(n, ok) ==
  IF n = RETRY_TIMES THEN (IF ok THEN "retry_return" ELSE "raised")
  ELSE "retry_sleep"

\* Faulty variant of AfterAttempt: the exception of the last attempt is
\* swallowed and retried_func returns.
AfterAttemptSwallowed(n, ok) ==
  IF ok \/ RetryExhausted(n) THEN "retry_return" ELSE "retry_sleep"

\* Faulty variant of AfterAttempt: a failed attempt is followed by the next
\* one at once.
AfterAttemptNoSleep(n, ok) ==
  IF ok THEN "retry_return"
  ELSE IF RetryExhausted(n) THEN "raised" ELSE "retry_call"

\* Where retried_func goes after an attempt: line 256 returns, line 263
\* raises, lines 265-266 sleep and loop.
AfterAttempt(n, ok) ==
  IF ok THEN "retry_return"
  ELSE IF RetryExhausted(n) THEN "raised" ELSE "retry_sleep"

\* One iteration of retried_func's loop: call func, return its value or
\* catch its exception.
retried_func(p, inject) ==
  /\ pc[p] = "retry_call"
  /\ LET f == func[p]
         cfg == IF f = CreateNamespacedService THEN service_config[p]
                                               ELSE deployment_config[p]
         nm == cfg[1].metadata.name
         exists == IF f = CreateNamespacedService THEN nm \in services
                                                  ELSE nm \in deployments
     IN \E out \in CreateOutcomes(exists, inject) :
          LET obj == ApiObject(f, nm, no[p])
              exc == Exception(out.kind, f, no[p])
              next == AfterAttempt(no[p], out.ok)
          IN /\ services' = IF f = CreateNamespacedService /\ out.effect
                              THEN services \cup {nm} ELSE services
             /\ deployments' = IF f = CreateNamespacedDeployment /\ out.effect
                                 THEN deployments \cup {nm} ELSE deployments
             /\ log' = [log EXCEPT ![p] = Append(@,
                          LogEntry(f, nm, cfg, no[p], out.effect,
                                   IF out.ok THEN Some(obj) ELSE None,
                                   IF out.ok THEN None ELSE Some(exc)))]
             /\ ret' = [ret EXCEPT ![p] = IF out.ok THEN Some(obj) ELSE None]
             /\ e' = [e EXCEPT ![p] = IF out.ok THEN @ ELSE Some(exc)]
             /\ pc' = [pc EXCEPT ![p] = next]
             /\ raised' = [raised EXCEPT ![p] =
                             IF next = "raised" THEN Some(Propagated(exc)) ELSE @]
  /\ UNCHANGED <<cfgVars, ingresses, op, result, service_name, publish_port, replicas, gpus,
                 hostname, func, no, service_obj, deployment_obj, service, ingVars>>

\* Lines 265-266, then the next iteration of the loop.
retry_sleep(p) ==
  /\ pc[p] = "retry_sleep"
  /\ log' = [log EXCEPT ![p] = Append(@,
               LogEntry(SleepApi, "", Some(wait_secs), no[p], FALSE, None, None))]
  /\ no' = [no EXCEPT ![p] = @ + 1]
  /\ pc' = [pc EXCEPT ![p] = "retry_call"]
  /\ UNCHANGED <<cfgVars, clusterVars, op, result, raised, service_name, publish_port, replicas,
                 gpus, hostname, func, e, ret, service_obj, deployment_obj, service,
                 ingVars>>

----------------------------------------------------------------------------
(* create_service *)

\* Faulty variants of ExposeService: the test of publish_port is lost.
ExposeAlways(port) == TRUE
ExposeNever(port) == FALSE

\* Line 143: a network-service is created for this request.
ExposeService(port) == port # None

\* Line 163: publish_port[0] if publish_port is not None else None.
ExposedPort(port) == IF port # None THEN Some(port[1]) ELSE None

\* Lines 154-159.
Info(name, g, r) ==
  [node_id |-> "default", gpu_nos |-> g, service_name |-> name, replicas |-> r]

\* The call: lines 133-151 up to the first wrapped call, with the manifest
\* that call submits.
create_service(p, Requests) ==
  /\ pc[p] = "idle"
  /\ \E rq \in Requests :
       /\ service_name' = [service_name EXCEPT ![p] = rq.service_name]
       /\ docker_image' = [docker_image EXCEPT ![p] = rq.docker_image]
       /\ replicas' = [replicas EXCEPT ![p] = rq.replicas]
       /\ args' = [args EXCEPT ![p] = rq.args]
       /\ environment_vars' = [environment_vars EXCEPT ![p] = rq.environment_vars]
       /\ mounts' = [mounts EXCEPT ![p] = rq.mounts]
       /\ publish_port' = [publish_port EXCEPT ![p] = rq.publish_port]
       /\ gpus' = [gpus EXCEPT ![p] = rq.gpus]
       /\ hostname' = [hostname EXCEPT ![p] = rq.service_name]
       /\ IF ExposeService(rq.publish_port)
            THEN /\ service_config' = [service_config EXCEPT ![p] =
                      Some(_create_service_config(rq.service_name, rq.docker_image,
                             rq.replicas, rq.args, rq.environment_vars, rq.mounts,
                             rq.publish_port, rq.gpus))]
                 /\ deployment_config' = [deployment_config EXCEPT ![p] = None]
                 /\ func' = [func EXCEPT ![p] = CreateNamespacedService]
            ELSE /\ service_config' = [service_config EXCEPT ![p] = None]
                 /\ deployment_config' = [deployment_config EXCEPT ![p] =
                      Some(_create_deployment_config(rq.service_name, rq.docker_image,
                             rq.replicas, rq.args, rq.environment_vars, rq.mounts,
                             rq.publish_port, rq.gpus))]
                 /\ func' = [func EXCEPT ![p] = CreateNamespacedDeployment]
  /\ op' = [op EXCEPT ![p] = "create_service"]
  /\ pc' = [pc EXCEPT ![p] = "retry_call"]
  /\ no' = [no EXCEPT ![p] = 0]
  /\ e' = [e EXCEPT ![p] = None]
  /\ ret' = [ret EXCEPT ![p] = None]
  /\ service_obj' = [service_obj EXCEPT ![p] = None]
  /\ deployment_obj' = [deployment_obj EXCEPT ![p] = None]
  /\ result' = [result EXCEPT ![p] = None]
  /\ raised' = [raised EXCEPT ![p] = None]
  /\ log' = [log EXCEPT ![p] = <<>>]
  /\ prev' = [prev EXCEPT ![p] = None]
  /\ cluster_before' = [cluster_before EXCEPT ![p] = Some(Cluster)]
  /\ UNCHANGED <<clusterVars, service, ingress_name, ingress_body, body, ingress_list,
                 ingress_names, writes>>

\* A wrapped call returned: lines 147-152 after the service call, lines
\* 151-164 after the deployment call.
create_service_resume(p) ==
  /\ pc[p] = "retry_return"
  /\ IF func[p] = CreateNamespacedService
       THEN /\ service_obj' = [service_obj EXCEPT ![p] = ret[p]]
            /\ func' = [func EXCEPT ![p] = CreateNamespacedDeployment]
            /\ no' = [no EXCEPT ![p] = 0]
            /\ e' = [e EXCEPT ![p] = None]
            /\ pc' = [pc EXCEPT ![p] = "retry_call"]
            /\ deployment_config' = [deployment_config EXCEPT ![p] =
                 Some(_create_deployment_config(service_name[p], docker_image[p],
                        replicas[p], args[p], environment_vars[p], mounts[p],
                        publish_port[p], gpus[p]))]
            /\ UNCHANGED <<deployment_obj, result>>
       ELSE /\ deployment_obj' = [deployment_obj EXCEPT ![p] = ret[p]]
            /\ result' = [result EXCEPT ![p] =
                 Some(ContainerService(service_name[p], hostname[p],
                                       ExposedPort(publish_port[p]),
                                       Info(service_name[p], gpus[p], replicas[p])))]
            /\ pc' = [pc EXCEPT ![p] = "done"]
            /\ UNCHANGED <<service_obj, func, no, e, deployment_config>>
  /\ ret' = [ret EXCEPT ![p] = None]
  /\ UNCHANGED <<clusterVars, op, raised, log, service_name, publish_port, replicas,
                 gpus, hostname, service, docker_image, args, environment_vars,
                 mounts, service_config, ingVars>>

----------------------------------------------------------------------------
(* destroy_service *)

\* The handles a caller can hold: what create_service returns.
Handles ==
  {ContainerService(n, n, ExposedPort(port), Info(n, g, r)) :
     n \in Names, port \in PublishPorts, g \in GpuCounts, r \in ReplicaCounts}

\* Faulty variant of AfterDeleteDeployment: the failure is swallowed.
AfterDeleteDeploymentSwallowed(ok) == "delete_service"

\* Lines 130-131: an exception of the first delete leaves the method, its
\* return lets the second delete run.
AfterDeleteDeployment(ok) == IF ok THEN "delete_service" ELSE "raised"

\* The call, up to line 130. The handle is the one the caller's previous
\* create_service returned, or any other.
destroy_service(p) ==
  /\ pc[p] = "idle"
  /\ \E s \in Handles :
       /\ service' = [service EXCEPT ![p] = Some(s)]
       /\ prev' = [prev EXCEPT ![p] =
                     IF @ # None /\ @[1].op = "create_service" /\ @[1].service = s
                       THEN @ ELSE None]
  /\ op' = [op EXCEPT ![p] = "destroy_service"]
  /\ pc' = [pc EXCEPT ![p] = "delete_deployment"]
  /\ result' = [result EXCEPT ![p] = None]
  /\ raised' = [raised EXCEPT ![p] = None]
  /\ log' = [log EXCEPT ![p] = <<>>]
  /\ cluster_before' = [cluster_before EXCEPT ![p] = Some(Cluster)]
  /\ UNCHANGED <<cfgVars, clusterVars, service_name, publish_port, replicas, gpus, hostname,
                 func, no, e, ret, service_obj, deployment_obj, ingress_name,
                 ingress_body, body, ingress_list, ingress_names,
                 writes>>

\* Line 130.
delete_namespaced_deployment(p, inject) ==
  /\ pc[p] = "delete_deployment"
  /\ LET nm == service[p][1].id
     IN \E out \in DeleteOutcomes(nm \in deployments, inject) :
          LET exc == Exception(out.kind, DeleteDeploymentApi, 0)
          IN /\ deployments' = IF out.effect THEN deployments \ {nm} ELSE deployments
             /\ log' = [log EXCEPT ![p] = Append(@,
                          LogEntry(DeleteDeploymentApi, nm, None, 0, out.effect,
                                   None, IF out.ok THEN None ELSE Some(exc)))]
             /\ pc' = [pc EXCEPT ![p] = AfterDeleteDeployment(out.ok)]
             /\ raised' = [raised EXCEPT ![p] =
                             IF AfterDeleteDeployment(out.ok) = "raised"
                               THEN Some(exc) ELSE @]
  /\ UNCHANGED <<cfgVars, services, ingresses, op, result, svcVars, ingVars>>

\* Line 131.
delete_namespaced_service(p, inject) ==
  /\ pc[p] = "delete_service"
  /\ LET nm == service[p][1].id
     IN \E out \in DeleteOutcomes(nm \in services, inject) :
          LET exc == Exception(out.kind, DeleteServiceApi, 0)
          IN /\ services' = IF out.effect THEN services \ {nm} ELSE services
             /\ log' = [log EXCEPT ![p] = Append(@,
                          LogEntry(DeleteServiceApi, nm, None, 0, out.effect,
                                   None, IF out.ok THEN None ELSE Some(exc)))]
             /\ pc' = [pc EXCEPT ![p] = IF out.ok THEN "done" ELSE "raised"]
             /\ raised' = [raised EXCEPT ![p] = IF out.ok THEN @ ELSE Some(exc)]
  /\ UNCHANGED <<cfgVars, deployments, ingresses, op, result, svcVars, ingVars>>

----------------------------------------------------------------------------
(* update_ingress *)

\* The ingress_body dicts a caller passes.
IngressBody(infos) == [spec |-> [rules |-> <<[http |-> [paths |-> infos]]>>]]
IngressBodies == {IngressBody(infos) : infos \in SeqsUpTo(PathInfos, MaxPaths)}

\* Lines 118-124.
NetworkingV1beta1HTTPIngressPath(path_info) ==
  [path |-> path_info.path,
   backend |-> [service_port |-> path_info.backend.servicePort,
                service_name |-> path_info.backend.serviceName]]

\* Faulty variant of _update_ingress_paths: each path is inserted at the
\* front of the list, which reverses the rules.
_update_ingress_paths_reversed(ib) ==
  LET infos == ib.spec.rules[1].http.paths
  IN [i \in 1..Len(infos) |->
        NetworkingV1beta1HTTPIngressPath(infos[Len(infos) + 1 - i])]

\* Lines 115-127.
_update_ingress_paths(ib) ==
  LET infos == ib.spec.rules[1].http.paths
  IN [i \in 1..Len(infos) |-> NetworkingV1beta1HTTPIngressPath(infos[i])]

\* Lines 75-92.
NetworkingV1beta1Ingress(name, paths) ==
  [api_version |-> "networking.k8s.io/v1beta1",
   kind |-> "Ingress",
   metadata |-> [name |-> name,
                 annotations |->
                   [k \in {"nginx.ingress.kubernetes.io/rewrite-target"} |-> "/"]],
   spec |-> [rules |-> <<[http |-> [paths |-> paths]]>>]]

\* The live rule-set under an ingress name: None, or Some(its paths).
LivePaths(live, name) ==
  IF live[name] = None THEN None ELSE Some(live[name][1].spec.rules[1].http.paths)

\* Faulty variant of ListFailed: only server errors count as failures.
ListFailedServerOnly(status) == status >= 500

\* Line 97.
ListFailed(status) == status # 200

\* Line 101.
IngressNames(items) == [i \in 1..Len(items) |-> items[i].metadata.name]

\* Faulty variants of IngressExists: the test inverted, the test lost, and
\* only the first listed name looked at.
IngressMissing(name, names) == ~ \E i \in 1..Len(names) : names[i] = name
IngressNeverExists(name, names) == FALSE
IngressExistsFirstOnly(name, names) == Len(names) > 0 /\ names[1] = name

\* Line 104.
IngressExists(name, names) == \E i \in 1..Len(names) : names[i] = name

\* What the list call answers: the live ingresses in the control plane's
\* order with status 200, or (inject) another status, or an exception.
ListItems(live) ==
  LET present == SelectSeq(IngOrder, LAMBDA n : live[n] # None)
  IN [i \in 1..Len(present) |-> live[present[i]][1]]

ListOutcomes(inject) ==
  {[ok |-> TRUE, status |-> 200, kind |-> "Listed"]}
  \cup (IF inject THEN {[ok |-> TRUE, status |-> 202, kind |-> "Listed"],
                        [ok |-> TRUE, status |-> 500, kind |-> "Listed"],
                        [ok |-> FALSE, status |-> 0, kind |-> "Timeout"]}
                  ELSE {})

\* What a replace call can do for a name; a missing name is NotFound.
ReplaceOutcomes(exists, inject) ==
  IF exists
    THEN {[ok |-> TRUE, effect |-> TRUE, kind |-> "Replaced"]}
         \cup (IF inject THEN {[ok |-> FALSE, effect |-> FALSE, kind |-> "Timeout"],
                               [ok |-> FALSE, effect |-> TRUE, kind |-> "Timeout"]}
                         ELSE {})
    ELSE {[ok |-> FALSE, effect |-> FALSE, kind |-> "NotFound"]}
         \cup (IF inject THEN {[ok |-> FALSE, effect |-> FALSE, kind |-> "Timeout"]}
                         ELSE {})

\* The call: lines 73-92.
update_ingress(p) ==
  /\ pc[p] = "idle"
  /\ \E name \in IngNames, ib \in IngressBodies :
       /\ ingress_name' = [ingress_name EXCEPT ![p] = name]
       /\ ingress_body' = [ingress_body EXCEPT ![p] = Some(ib)]
       /\ body' = [body EXCEPT ![p] =
                     Some(NetworkingV1beta1Ingress(name, _update_ingress_paths(ib)))]
       /\ prev' = [prev EXCEPT ![p] =
                     IF @ # None /\ @[1].op = "update_ingress"
                          /\ @[1].name = name /\ @[1].body = Some(ib)
                       THEN @ ELSE None]
  /\ op' = [op EXCEPT ![p] = "update_ingress"]
  /\ pc' = [pc EXCEPT ![p] = "list_ingress"]
  /\ result' = [result EXCEPT ![p] = None]
  /\ raised' = [raised EXCEPT ![p] = None]
  /\ log' = [log EXCEPT ![p] = <<>>]
  /\ ingress_list' = [ingress_list EXCEPT ![p] = None]
  /\ ingress_names' = [ingress_names EXCEPT ![p] = <<>>]
  /\ cluster_before' = [cluster_before EXCEPT ![p] = Some(Cluster)]
  /\ writes' = IF \A q \in Procs : pc[q] = "idle" THEN <<>> ELSE writes
  /\ UNCHANGED <<cfgVars, clusterVars, svcVars>>

\* Lines 95-104: the list call, the status check and the choice between
\* replace and create.
list_namespaced_ingress(p, inject) ==
  /\ pc[p] = "list_ingress"
  /\ \E out \in ListOutcomes(inject) :
       LET resp == [items |-> ListItems(ingresses), status |-> out.status]
           exc == Exception(out.kind, ListApi, 0)
           names == IngressNames(resp.items)
       IN /\ log' = [log EXCEPT ![p] = Append(@,
                       LogEntry(ListApi, "", None, 0, FALSE,
                                IF out.ok THEN Some(resp) ELSE None,
                                IF out.ok THEN None ELSE Some(exc)))]
          /\ IF ~out.ok
               THEN /\ raised' = [raised EXCEPT ![p] = Some(exc)]
                    /\ pc' = [pc EXCEPT ![p] = "raised"]
                    /\ UNCHANGED <<ingress_list, ingress_names>>
               ELSE /\ ingress_list' = [ingress_list EXCEPT ![p] = Some(resp)]
                    /\ IF ListFailed(resp.status)
                         THEN /\ raised' = [raised EXCEPT ![p] =
                                   Some(Exception("ServiceRequestError",
                                                  "update_ingress", 0))]
                              /\ pc' = [pc EXCEPT ![p] = "raised"]
                              /\ UNCHANGED ingress_names
                         ELSE /\ ingress_names' = [ingress_names EXCEPT ![p] = names]
                              /\ pc' = [pc EXCEPT ![p] =
                                   IF IngressExists(ingress_name[p], names)
                                     THEN "replace_ingress" ELSE "create_ingress"]
                              /\ UNCHANGED raised
  /\ UNCHANGED <<cfgVars, clusterVars, op, result, svcVars, ingress_name, ingress_body, body,
                 cluster_before, prev, writes>>

\* Lines 107-109.
replace_namespaced_ingress(p, inject) ==
  /\ pc[p] = "replace_ingress"
  /\ LET nm == ingress_name[p]
     IN \E out \in ReplaceOutcomes(ingresses[nm] # None, inject) :
          LET exc == Exception(out.kind, ReplaceApi, 0)
          IN /\ ingresses' = IF out.effect THEN [ingresses EXCEPT ![nm] = body[p]]
                                           ELSE ingresses
             /\ log' = [log EXCEPT ![p] = Append(@,
                          LogEntry(ReplaceApi, nm, body[p], 0,
                                   out.effect, None,
                                   IF out.ok THEN None ELSE Some(exc)))]
             /\ writes' = Append(writes, [proc |-> p, effect |-> out.effect])
             /\ pc' = [pc EXCEPT ![p] = IF out.ok THEN "done" ELSE "raised"]
             /\ raised' = [raised EXCEPT ![p] = IF out.ok THEN @ ELSE Some(exc)]
  /\ UNCHANGED <<cfgVars, deployments, services, op, result, svcVars, ingress_name,
                 ingress_body, body, ingress_list, ingress_names, cluster_before, prev>>

\* Lines 112-113: the manifest names the ingress to create.
create_namespaced_ingress(p, inject) ==
  /\ pc[p] = "create_ingress"
  /\ LET nm == body[p][1].metadata.name
     IN \E out \in CreateOutcomes(ingresses[nm] # None, inject) :
          LET exc == Exception(out.kind, CreateApi, 0)
          IN /\ ingresses' = IF out.effect THEN [ingresses EXCEPT ![nm] = body[p]]
                                           ELSE ingresses
             /\ log' = [log EXCEPT ![p] = Append(@,
                          LogEntry(CreateApi, nm, body[p], 0,
                                   out.effect, None,
                                   IF out.ok THEN None ELSE Some(exc)))]
             /\ writes' = Append(writes, [proc |-> p, effect |-> out.effect])
             /\ pc' = [pc EXCEPT ![p] = IF out.ok THEN "done" ELSE "raised"]
             /\ raised' = [raised EXCEPT ![p] = IF out.ok THEN @ ELSE Some(exc)]
  /\ UNCHANGED <<cfgVars, deployments, services, op, result, svcVars, ingress_name,
                 ingress_body, body, ingress_list, ingress_names, cluster_before, prev>>

----------------------------------------------------------------------------
(* The caller takes the outcome of its call and is free to call again. *)

Return(p) ==
  /\ pc[p] \in {"done", "raised"}
  /\ pc' = [pc EXCEPT ![p] = "idle"]
  /\ prev' = [prev EXCEPT ![p] =
       IF pc[p] = "done" /\ op[p] = "update_ingress"
         THEN Some([op |-> op[p], name |-> ingress_name[p], body |-> ingress_body[p],
                    live |-> ingresses[ingress_name[p]]])
       ELSE IF pc[p] = "done" /\ op[p] = "create_service"
         THEN Some([op |-> op[p], service |-> result[p][1],
                    clean |-> \A i \in 1..Len(log[p]) : log[p][i].exc = None])
       ELSE None]
  \* the call's frame is gone
  /\ op' = [op EXCEPT ![p] = "none"]
  /\ result' = [result EXCEPT ![p] = None]
  /\ raised' = [raised EXCEPT ![p] = None]
  /\ log' = [log EXCEPT ![p] = <<>>]
  /\ service_name' = [service_name EXCEPT ![p] = ""]
  /\ publish_port' = [publish_port EXCEPT ![p] = None]
  /\ replicas' = [replicas EXCEPT ![p] = 1]
  /\ gpus' = [gpus EXCEPT ![p] = 0]
  /\ hostname' = [hostname EXCEPT ![p] = ""]
  /\ docker_image' = [docker_image EXCEPT ![p] = ""]
  /\ args' = [args EXCEPT ![p] = <<>>]
  /\ environment_vars' = [environment_vars EXCEPT ![p] = <<>>]
  /\ mounts' = [mounts EXCEPT ![p] = <<>>]
  /\ service_config' = [service_config EXCEPT ![p] = None]
  /\ deployment_config' = [deployment_config EXCEPT ![p] = None]
  /\ func' = [func EXCEPT ![p] = ""]
  /\ no' = [no EXCEPT ![p] = 0]
  /\ e' = [e EXCEPT ![p] = None]
  /\ ret' = [ret EXCEPT ![p] = None]
  /\ service_obj' = [service_obj EXCEPT ![p] = None]
  /\ deployment_obj' = [deployment_obj EXCEPT ![p] = None]
  /\ service' = [service EXCEPT ![p] = None]
  /\ ingress_name' = [ingress_name EXCEPT ![p] = ""]
  /\ ingress_body' = [ingress_body EXCEPT ![p] = None]
  /\ body' = [body EXCEPT ![p] = None]
  /\ ingress_list' = [ingress_list EXCEPT ![p] = None]
  /\ ingress_names' = [ingress_names EXCEPT ![p] = <<>>]
  /\ cluster_before' = [cluster_before EXCEPT ![p] = None]
  /\ UNCHANGED <<clusterVars, writes>>

----------------------------------------------------------------------------
(* One caller creating and destroying services against a control plane     *)
(* that may fail any call.                                                 *)

NextService ==
  \/ create_service(1, ServiceRequests)
  \/ retried_func(1, TRUE)
  \/ retry_sleep(1)
  \/ create_service_resume(1)
  \/ destroy_service(1)
  \/ delete_namespaced_deployment(1, TRUE)
  \/ delete_namespaced_service(1, TRUE)
  \/ Return(1)

SpecService == Init /\ [][NextService]_vars

\* A running create_service goes on: the thread runs, and every remote call
\* and every sleep comes back.
FairService ==
  WF_vars(retried_func(1, TRUE) \/ retry_sleep(1) \/ create_service_resume(1))

SpecServiceFair == SpecService /\ FairService

----------------------------------------------------------------------------
(* One create_service call, for any request, on an empty cluster whose     *)
(* control plane fails no call: the manifests built and what is returned.  *)

NextManifest ==
  \/ create_service(1, ManifestRequests)
  \/ retried_func(1, FALSE)
  \/ create_service_resume(1)

SpecManifest == Init /\ [][NextManifest]_vars

----------------------------------------------------------------------------
(* One caller updating ingresses against a control plane that may fail any *)
(* call.                                                                   *)

NextIngress ==
  \/ update_ingress(1)
  \/ list_namespaced_ingress(1, TRUE)
  \/ replace_namespaced_ingress(1, TRUE)
  \/ create_namespaced_ingress(1, TRUE)
  \/ Return(1)

SpecIngress == Init /\ [][NextIngress]_vars

----------------------------------------------------------------------------
(* Two callers, one update_ingress each, running concurrently against a    *)
(* control plane that fails no call of its own accord. The cluster starts  *)
(* with any of the ingresses live.                                         *)

InitRace ==
  /\ deployments = {}
  /\ services = {}
  /\ ingresses \in
       {[n \in IngNames |->
           IF n \in S THEN Some(NetworkingV1beta1Ingress(n,
                                  _update_ingress_paths(IngressBody(c[n]))))
                      ELSE None] :
          S \in SUBSET IngNames, c \in [IngNames -> SeqsUpTo(PathInfos, 1)]}
  /\ InitCallers

NextRace ==
  \E p \in Procs :
    \/ update_ingress(p)
    \/ list_namespaced_ingress(p, FALSE)
    \/ replace_namespaced_ingress(p, FALSE)
    \/ create_namespaced_ingress(p, FALSE)

SpecRace == InitRace /\ [][NextRace]_vars

----------------------------------------------------------------------------
(* Properties of _retry and create_service, checked under SpecService *)

Failed(en) == en.exc # None
AllFailed(c) == \A i \in 1..Len(c) : Failed(c[i])
InCreate(p) == op[p] = "create_service"

\* C1: an operation wrapped by _retry that fails on every invocation is
\* invoked exactly RETRY_TIMES + 1 times (never more, and the wrapper does
\* not give up before), and what the wrapper then raises is the very
\* exception of the last invocation: not a wrapper around it, and not the
\* exception of an earlier attempt.
C1_RetryExhaustion ==
  \A p \in Procs :
    InCreate(p) =>
      LET c == Calls(p, func[p])
      IN /\ Len(c) <= RETRY_TIMES + 1
         /\ \A i \in 1..Len(c) : c[i].no = i - 1
         /\ (AllFailed(c) /\ Len(c) < RETRY_TIMES + 1)
              => pc[p] \in {"retry_call", "retry_sleep"} /\ raised[p] = None
         /\ (AllFailed(c) /\ Len(c) = RETRY_TIMES + 1) => pc[p] = "raised"
         /\ pc[p] = "raised"
              => /\ Len(c) = RETRY_TIMES + 1
                 /\ AllFailed(c)
                 /\ raised[p] = c[Len(c)].exc
                 /\ \A i \in 1..(Len(c) - 1) : c[i].exc # raised[p]

\* C1 happens: six failed attempts of different kinds, the last one raised.
C1_Witness ==
  /\ InCreate(1) /\ pc[1] = "raised"
  /\ Len(Calls(1, func[1])) = RETRY_TIMES + 1
  /\ Calls(1, func[1])[1].exc[1].kind = "Timeout"
  /\ raised[1][1].kind = "Conflict"

\* C2: an operation wrapped by _retry that fails on its first k invocations
\* (0 <= k <= RETRY_TIMES) and succeeds on invocation k + 1 is invoked
\* exactly k + 1 times; the wrapper returns the result of that successful
\* invocation, raises nothing, and never invokes the operation again after
\* the success.
C2_RetryStopsAtSuccess ==
  \A p \in Procs :
    InCreate(p) =>
      /\ \A f \in {CreateNamespacedService, CreateNamespacedDeployment} :
           LET c == Calls(p, f)
           IN \A i \in 1..(Len(c) - 1) : Failed(c[i]) /\ c[i].ret = None
      /\ LET c == Calls(p, func[p])
             k == Cardinality({i \in 1..Len(c) : Failed(c[i])})
         IN /\ pc[p] = "retry_return"
                 => /\ Len(c) = k + 1
                    /\ k <= RETRY_TIMES
                    /\ c[Len(c)].ret # None
                    /\ ret[p] = c[Len(c)].ret
                    /\ ret[p][1].uid = k
                    /\ raised[p] = None
            /\ (Len(c) > 0 /\ ~Failed(c[Len(c)]))
                 => pc[p] \in {"retry_return", "done"} /\ raised[p] = None

\* C2 happens: success on the last attempt the loop allows.
C2_Witness ==
  /\ InCreate(1) /\ pc[1] = "retry_return"
  /\ Len(Calls(1, func[1])) = RETRY_TIMES + 1

\* C3: with publish_port = None create_service never calls
\* create_namespaced_service, however many workload-creation attempts fail;
\* with publish_port present the first remote call of the run is
\* create_namespaced_service, so every run that ends has attempted it.
C3_ExposureIffPort ==
  \A p \in Procs :
    InCreate(p) =>
      LET s == Calls(p, CreateNamespacedService)
      IN /\ publish_port[p] = None => Len(s) = 0
         /\ (publish_port[p] # None /\ log[p] # <<>>)
              => log[p][1].api = CreateNamespacedService
         /\ (publish_port[p] # None /\ pc[p] \in {"done", "raised"}) => Len(s) >= 1

\* C3 happens: no port, every workload-creation attempt failed.
C3_Witness ==
  /\ InCreate(1) /\ publish_port[1] = None /\ pc[1] = "raised"
  /\ Len(Calls(1, CreateNamespacedDeployment)) = RETRY_TIMES + 1
  /\ Len(Calls(1, CreateNamespacedService)) = 0

----------------------------------------------------------------------------
(* Properties of update_ingress, checked under SpecIngress *)

InUpdate(p) == op[p] = "update_ingress"
Ended(p) == pc[p] \in {"done", "raised"}

\* The names the list call of the running update_ingress answered with.
Listed(p) ==
  LET r == Calls(p, ListApi)[1].ret[1]
  IN {r.items[i].metadata.name : i \in 1..Len(r.items)}

\* The list call of the running update_ingress answered, with this status.
ListAnswered(p) ==
  /\ Len(Calls(p, ListApi)) = 1
  /\ Calls(p, ListApi)[1].ret # None

\* C4: when the list call succeeds, update_ingress issues exactly one create
\* and no replace if ingress_name is not among the listed names, and exactly
\* one replace, addressed to ingress_name, and no create if it is; the list
\* call is made once and none of the three remote calls is repeated.
C4_CreateOrReplace ==
  \A p \in Procs :
    InUpdate(p) =>
      LET l == Calls(p, ListApi)
          c == Calls(p, CreateApi)
          r == Calls(p, ReplaceApi)
      IN /\ Len(l) <= 1 /\ Len(c) + Len(r) <= 1
         /\ (Ended(p) /\ ListAnswered(p) /\ l[1].ret[1].status = 200)
              => /\ Len(l) = 1
                 /\ log[p][1].api = ListApi
                 /\ IF ingress_name[p] \in Listed(p)
                      THEN Len(r) = 1 /\ Len(c) = 0 /\ r[1].name = ingress_name[p]
                      ELSE Len(c) = 1 /\ Len(r) = 0 /\ c[1].name = ingress_name[p]

\* C4 happens: a listed ingress is replaced while another one is live too.
C4_Witness ==
  /\ InUpdate(1) /\ pc[1] = "done"
  /\ Listed(1) = IngNames
  /\ ingress_name[1] = "ing2"
  /\ Len(Calls(1, ReplaceApi)) = 1

\* C5: when the list call answers with a status other than 200,
\* update_ingress raises ServiceRequestError and issues neither create nor
\* replace, and the live ingresses are what they were when the call began.
C5_ListFailureAborts ==
  \A p \in Procs :
    (InUpdate(p) /\ ListAnswered(p) /\ Calls(p, ListApi)[1].ret[1].status # 200)
      => /\ pc[p] = "raised"
         /\ raised[p] # None
         /\ raised[p][1].kind = "ServiceRequestError"
         /\ Len(Calls(p, CreateApi)) = 0
         /\ Len(Calls(p, ReplaceApi)) = 0
         /\ Len(log[p]) = 1
         /\ ingresses = cluster_before[p][1].ingresses

\* C5 happens: status 202 while the ingress to update is live.
C5_Witness ==
  /\ InUpdate(1) /\ pc[1] = "raised"
  /\ ListAnswered(1) /\ Calls(1, ListApi)[1].ret[1].status = 202
  /\ ingresses[ingress_name[1]] # None

\* C6: update_ingress(name, ruleSet) called a second time with the same
\* arguments, right after it succeeded, leaves under name the rule-set the
\* first call left, and fails only if the control plane fails one of its
\* calls: never with Conflict or NotFound.
C6_Idempotent ==
  \A p \in Procs :
    (InUpdate(p) /\ prev[p] # None)
      => /\ prev[p][1].name = ingress_name[p] /\ prev[p][1].body = ingress_body[p]
         /\ prev[p][1].live # None
         /\ pc[p] = "done" => ingresses[ingress_name[p]] = prev[p][1].live
         /\ pc[p] = "raised"
              => raised[p][1].kind \in {"Timeout", "ServiceRequestError"}
         /\ (pc[p] = "raised" /\ \A i \in 1..Len(log[p]) : ~log[p][i].effect)
              => ingresses[ingress_name[p]] = prev[p][1].live

\* C6 happens: the second call with a two-rule body is done.
C6_Witness ==
  /\ InUpdate(1) /\ prev[1] # None /\ pc[1] = "done"
  /\ Len(ingress_body[1][1].spec.rules[1].http.paths) = 2

\* C7: after a successful update_ingress(name, ruleSet) the live rule-set
\* under name is exactly one native path per input rule, in input order,
\* each with that rule's path, backend service name and backend port (so a
\* path that was live before and is not in ruleSet is gone), and the
\* ingresses under other names are unchanged.
C7_FullOverwrite ==
  \A p \in Procs :
    (InUpdate(p) /\ pc[p] = "done")
      => LET infos == ingress_body[p][1].spec.rules[1].http.paths
             live == LivePaths(ingresses, ingress_name[p])
         IN /\ live # None
            /\ Len(live[1]) = Len(infos)
            /\ \A i \in 1..Len(infos) :
                 /\ live[1][i].path = infos[i].path
                 /\ live[1][i].backend.service_name = infos[i].backend.serviceName
                 /\ live[1][i].backend.service_port = infos[i].backend.servicePort
            /\ ingresses[ingress_name[p]][1].metadata.name = ingress_name[p]
            /\ \A n \in IngNames \ {ingress_name[p]} :
                 ingresses[n] = cluster_before[p][1].ingresses[n]

\* C7 happens: two rules lived under the name, one was written, and the
\* other ingress is live.
C7_Witness ==
  /\ InUpdate(1) /\ pc[1] = "done"
  /\ \A n \in IngNames : cluster_before[1][1].ingresses[n] # None
  /\ Len(LivePaths(cluster_before[1][1].ingresses, ingress_name[1])[1]) = 2
  /\ Len(LivePaths(ingresses, ingress_name[1])[1]) = 1

----------------------------------------------------------------------------
(* Two concurrent update_ingress calls, checked under SpecRace *)

\* Both calls have ended, and they were for the same ingress_name with
\* different rule sets.
RaceOver ==
  /\ \A p \in Procs : InUpdate(p) /\ Ended(p)
  /\ ingress_name[1] = ingress_name[2]
  /\ ingress_body[1] # ingress_body[2]

\* The caller whose create/replace was issued i-th.
Writer(i) == writes[i].proc

\* Both calls listed before ingress_name was live, so both issued a create.
BothCreated == \A p \in Procs : Len(Calls(p, CreateApi)) = 1

\* C8 as claimed: in every interleaving of two concurrent update_ingress
\* calls on one ingress_name with different rule sets both calls complete
\* and the final live rule-set is that of the call whose create/replace was
\* issued last.
C8_LastWriteWins ==
  RaceOver
    => /\ \A p \in Procs : pc[p] = "done"
       /\ Len(writes) = 2
       /\ ingresses[ingress_name[1]] = body[Writer(2)]

\* C8 amended: the last write wins, and both calls complete, unless both
\* calls listed before ingress_name was live; then both issue a create, the
\* create issued second fails with Conflict, which update_ingress raises,
\* and the final live rule-set is that of the call whose create was issued
\* first.
C8_LastWriteWinsUnlessBothCreate ==
  RaceOver
    => /\ Len(writes) = 2
       /\ Writer(1) # Writer(2)
       /\ IF BothCreated
            THEN /\ cluster_before[1][1].ingresses[ingress_name[1]] = None
                 /\ cluster_before[2][1].ingresses[ingress_name[2]] = None
                 /\ pc[Writer(1)] = "done"
                 /\ pc[Writer(2)] = "raised"
                 /\ raised[Writer(2)][1].kind = "Conflict"
                 /\ raised[Writer(2)][1].func = CreateApi
                 /\ ingresses[ingress_name[1]] = body[Writer(1)]
            ELSE /\ \A p \in Procs : pc[p] = "done"
                 /\ ingresses[ingress_name[1]] = body[Writer(2)]

\* C8 happens: both calls issued a create for the same name.
C8_Witness == RaceOver /\ BothCreated

\* The other case of C8 happens too: a live ingress, both calls replace it.
C8_WitnessReplace ==
  RaceOver /\ \A p \in Procs : Len(Calls(p, ReplaceApi)) = 1 /\ pc[p] = "done"

----------------------------------------------------------------------------
(* create_service against an unreliable control plane, under SpecService *)

\* A creation attempt of the running create_service took effect at the
\* control plane and reported a failure to the caller.
LostResponse(p) ==
  \E i \in 1..Len(log[p]) :
    /\ log[p][i].api \in {CreateNamespacedService, CreateNamespacedDeployment}
    /\ log[p][i].effect
    /\ Failed(log[p][i])

\* C9 as claimed: when a creation attempt takes effect at the control plane
\* but reports a failure, the retries still lead create_service to return a
\* ContainerService, with the workload named service_name live (and the
\* network-service too when a port is published).
C9_RetryIdempotent ==
  \A p \in Procs :
    (InCreate(p) /\ Ended(p) /\ LostResponse(p))
      => /\ pc[p] = "done"
         /\ result[p] # None
         /\ service_name[p] \in deployments
         /\ publish_port[p] # None => service_name[p] \in services

\* What the code does there: every retry after the lost response conflicts
\* with the resource the lost attempt created, and create_service raises.
C9_LostResponseRaises ==
  \A p \in Procs :
    (InCreate(p) /\ Ended(p) /\ LostResponse(p))
      => /\ pc[p] = "raised"
         /\ result[p] = None
         /\ raised[p][1].kind \in {"Conflict", "Timeout"}

\* C10 as claimed: with publish_port present, when network-service creation
\* succeeded and workload creation failed on all RETRY_TIMES + 1 attempts,
\* create_service raises the workload-creation error, returns nothing,
\* issues no delete call, and the network-service named service_name is
\* live with no workload of that name.
WorkloadCreationFailed(p) ==
  /\ InCreate(p) /\ publish_port[p] # None /\ pc[p] = "raised"
  /\ func[p] = CreateNamespacedDeployment

C10_NoRollback ==
  \A p \in Procs :
    WorkloadCreationFailed(p)
      => LET d == Calls(p, CreateNamespacedDeployment)
         IN /\ Len(d) = RETRY_TIMES + 1
            /\ raised[p] = d[Len(d)].exc
            /\ result[p] = None
            /\ \A i \in 1..Len(log[p]) : log[p][i].api \notin DeleteApis
            /\ service_name[p] \in services
            /\ service_name[p] \notin deployments

\* C10 amended: the same, except that a workload of that name is live
\* exactly when it was live before the call or one of the failed attempts
\* took effect at the control plane.
C10_NoRollbackOrphanOrNot ==
  \A p \in Procs :
    WorkloadCreationFailed(p)
      => LET d == Calls(p, CreateNamespacedDeployment)
             s == Calls(p, CreateNamespacedService)
         IN /\ Len(d) = RETRY_TIMES + 1
            /\ AllFailed(d)
            /\ raised[p] = d[Len(d)].exc
            /\ result[p] = None
            /\ \A i \in 1..Len(log[p]) : log[p][i].api \notin DeleteApis
            /\ Len(s) >= 1 /\ ~Failed(s[Len(s)])
            /\ service_name[p] \in services
            /\ service_name[p] \notin cluster_before[p][1].services
            /\ service_name[p] \in deployments
                 <=> \/ service_name[p] \in cluster_before[p][1].deployments
                     \/ \E i \in 1..Len(d) : d[i].effect

\* C10 happens: the network-service is live and orphaned.
C10_Witness ==
  /\ WorkloadCreationFailed(1)
  /\ service_name[1] \in services
  /\ service_name[1] \notin deployments

\* The case C10 left out happens: the workload was live before the call.
C10_WitnessNotOrphaned ==
  /\ WorkloadCreationFailed(1)
  /\ service_name[1] \in cluster_before[1][1].deployments
  /\ service_name[1] \in services

----------------------------------------------------------------------------
(* destroy_service: order of the deletes, failures, and create/destroy     *)

InDestroy(p) == op[p] = "destroy_service"

\* The workload delete succeeded and the network-service delete failed.
PartialDeletion(p) ==
  /\ InDestroy(p) /\ pc[p] = "raised" /\ Len(log[p]) = 2

\* C11 as claimed, last clause: when the workload delete succeeds and the
\* network-service delete fails, the workload stays deleted and the
\* network-service stays present.
C11_PartialDeletionKeepsService ==
  \A p \in Procs :
    PartialDeletion(p)
      => /\ service[p][1].id \notin deployments
         /\ service[p][1].id \in services

\* C11 amended: destroy_service issues the workload delete for service.id
\* first and once; the network-service delete for service.id is issued, once,
\* only after the workload delete succeeded; neither is retried; a delete
\* failure propagates with no compensating action. When the workload delete
\* succeeds and the network-service delete fails, the workload stays deleted,
\* and the network-service is present exactly when it was present before
\* the call and the failed delete did not take effect.
C11_DeleteOrderNoCompensation ==
  \A p \in Procs :
    InDestroy(p)
      => LET l == log[p]
             id == service[p][1].id
             before == cluster_before[p][1]
         IN /\ Len(l) <= 2
            /\ \A i \in 1..Len(l) : l[i].name = id /\ l[i].no = 0
            /\ Len(l) >= 1 => l[1].api = DeleteDeploymentApi
            /\ Len(l) = 2 => l[2].api = DeleteServiceApi /\ ~Failed(l[1])
            /\ pc[p] = "delete_deployment" => Len(l) = 0
            /\ pc[p] = "delete_service" => Len(l) = 1 /\ ~Failed(l[1])
            /\ pc[p] = "done" => Len(l) = 2 /\ ~Failed(l[2]) /\ raised[p] = None
            /\ pc[p] = "raised"
                 => /\ Len(l) >= 1
                    /\ Failed(l[Len(l)])
                    /\ raised[p] = l[Len(l)].exc
            /\ deployments = before.deployments
                               \ (IF Len(l) >= 1 /\ l[1].effect THEN {id} ELSE {})
            /\ services = before.services
                            \ (IF Len(l) = 2 /\ l[2].effect THEN {id} ELSE {})
            /\ ingresses = before.ingresses
            /\ PartialDeletion(p)
                 => /\ id \notin deployments
                    /\ id \in services <=> (id \in before.services /\ ~l[2].effect)

\* C11 happens: the workload is deleted, the network-service delete failed
\* and the network-service is still there.
C11_Witness ==
  /\ PartialDeletion(1)
  /\ service[1][1].id \notin deployments
  /\ service[1][1].id \in services

\* The case C11 left out happens: the failed delete took effect.
C11_WitnessServiceGone ==
  /\ PartialDeletion(1)
  /\ service[1][1].id \in cluster_before[1][1].services
  /\ service[1][1].id \notin services

\* The caller destroys the service its previous call created, and neither
\* call met an injected failure.
NoInjectedFailure(l) ==
  \A i \in 1..Len(l) : Failed(l[i]) => l[i].exc[1].kind # "Timeout"

DestroyOfCreated(p) ==
  /\ InDestroy(p) /\ prev[p] # None /\ prev[p][1].clean
  /\ NoInjectedFailure(log[p])

\* C12 as claimed: with no injected failures, create_service(request)
\* followed by destroy_service(returned service) completes without raising
\* and leaves neither a workload nor a network-service named service_name,
\* whether publish_port is present or absent.
C12_DestroyInvalidates ==
  \A p \in Procs :
    (DestroyOfCreated(p) /\ Ended(p))
      => /\ pc[p] = "done"
         /\ service[p][1].id \notin deployments
         /\ service[p][1].id \notin services

\* What the code does there: the pair is removed, and the call completes
\* for a service created with a port; without one the network-service
\* delete finds a network-service only if an earlier call left one behind,
\* and otherwise is answered NotFound, so that destroy_service raises.
C12_DestroyRaisesWithoutService ==
  \A p \in Procs :
    (DestroyOfCreated(p) /\ Ended(p))
      => /\ service[p][1].id \notin deployments
         /\ service[p][1].id \notin services
         /\ pc[p] = "done" <=> service[p][1].id \in cluster_before[p][1].services
         /\ service[p][1].exposed_port # None => pc[p] = "done"
         /\ pc[p] = "raised"
              => /\ raised[p][1].kind = "NotFound"
                 /\ raised[p][1].func = DeleteServiceApi

\* The failing case happens: a service created without a port on a cluster
\* that has no network-service of its name, then destroyed.
C12_WitnessRaised ==
  /\ DestroyOfCreated(1) /\ pc[1] = "raised"
  /\ service[1][1].exposed_port = None

----------------------------------------------------------------------------
(* The manifests create_service submits *)

\* The workload manifest of the running call is built.
WorkloadBuilt(p) == InCreate(p) /\ deployment_config[p] # None

\* The pod template of the workload manifest and its containers.
PodSpec(p) == deployment_config[p][1].spec.template.spec
Containers(p) == PodSpec(p).containers

\* C13 as claimed: the single container of the pod template carries the
\* args parameter of create_service, in order, alongside its image,
\* environment list and volume mounts.
C13_LaunchArgsInManifest ==
  \A p \in Procs :
    WorkloadBuilt(p)
      => /\ Len(Containers(p)) = 1
         /\ Containers(p)[1].image = docker_image[p]
         /\ Len(Containers(p)[1].env) = Len(environment_vars[p])
         /\ Len(Containers(p)[1].volumeMounts) = Len(mounts[p])
         /\ "args" \in DOMAIN Containers(p)[1]
         /\ Containers(p)[1].args = args[p]

\* What the code builds: one container with name, image, volume mounts and
\* environment (and resources for GPUs), and nothing made from args: two
\* requests that differ in args only get the same manifest.
C13_ArgsDropped ==
  \A p \in Procs :
    WorkloadBuilt(p)
      => /\ Len(Containers(p)) = 1
         /\ DOMAIN Containers(p)[1] \subseteq
              {"name", "image", "volumeMounts", "env", "resources"}
         /\ \A a \in LaunchArgs :
              deployment_config[p][1] =
                _create_deployment_config(service_name[p], docker_image[p],
                  replicas[p], a, environment_vars[p], mounts[p],
                  publish_port[p], gpus[p])

\* The failing case happens: a request with launch arguments.
C13_WitnessArgs == WorkloadBuilt(1) /\ Len(args[1]) = 2

\* The name generated for the i-th mount, i from 0.
Ordinal(i) == <<"v0", "v1", "v2", "v3", "v4", "v5", "v6", "v7", "v8", "v9">>[i + 1]

\* C14: for a mounts mapping of size N the workload manifest has exactly N
\* volumes and N container volume-mounts, named v0..v(N-1) without
\* duplicates, and for the i-th entry (h, c) volume v<i> has hostPath.path
\* = h and volume-mount v<i> has mountPath = c.
C14_VolumesPairMounts ==
  \A p \in Procs :
    WorkloadBuilt(p)
      => LET m == mounts[p]
             vs == PodSpec(p).volumes
             vm == Containers(p)[1].volumeMounts
         IN /\ Len(vs) = Len(m)
            /\ Len(vm) = Len(m)
            /\ \A i \in 1..Len(m) :
                 /\ vs[i].name = Ordinal(i - 1)
                 /\ vm[i].name = Ordinal(i - 1)
                 /\ vs[i].hostPath.path = m[i][1]
                 /\ vm[i].mountPath = m[i][2]
            /\ \A i, j \in 1..Len(m) :
                 (vs[i].name = vs[j].name \/ vm[i].name = vm[j].name) => i = j

\* C14 happens: a manifest built from two mounts or more.
C14_Witness == WorkloadBuilt(1) /\ Len(mounts[1]) >= 2

\* C14 happens for N = 0 too.
C14_WitnessNoMounts == WorkloadBuilt(1) /\ Len(mounts[1]) = 0

\* C15: with gpus = 0 the container has no resources section; with gpus =
\* k > 0 it has exactly one resource entry, a limit of k under the GPU
\* resource key.
C15_GpuPolicy ==
  \A p \in Procs :
    WorkloadBuilt(p)
      => LET c == Containers(p)[1]
         IN /\ gpus[p] = 0 => "resources" \notin DOMAIN c
            /\ gpus[p] > 0
                 => /\ "resources" \in DOMAIN c
                    /\ DOMAIN c.resources = {"limits"}
                    /\ DOMAIN c.resources.limits = {"nvidia.com/gpu"}
                    /\ c.resources.limits["nvidia.com/gpu"] = gpus[p]

\* C15 happens: a manifest for two GPUs.
C15_Witness == WorkloadBuilt(1) /\ gpus[1] = 2

\* C15 happens without GPUs too.
C15_WitnessNoGpu == WorkloadBuilt(1) /\ gpus[1] = 0

\* C16: for publish_port = (e, i) the network-service manifest submitted
\* has type NodePort and exactly one port rule {port: i, targetPort: i,
\* nodePort: e}, and the ContainerService returned has id = hostname =
\* service_name and exposed_port = e; for publish_port = None the returned
\* exposed_port is None, and no network-service manifest is submitted.
C16_NodePortAndHandle ==
  \A p \in Procs :
    InCreate(p)
      => LET s == Calls(p, CreateNamespacedService)
         IN /\ publish_port[p] = None => Len(s) = 0
            /\ \A k \in 1..Len(s) :
                 /\ publish_port[p] # None
                 /\ s[k].arg = service_config[p]
                 /\ s[k].arg[1].kind = "Service"
                 /\ s[k].arg[1].spec.type = "NodePort"
                 /\ s[k].arg[1].spec.ports =
                      <<[port |-> publish_port[p][2],
                         targetPort |-> publish_port[p][2],
                         nodePort |-> publish_port[p][1]]>>
            /\ pc[p] = "done"
                 => /\ result[p] # None
                    /\ result[p][1].id = service_name[p]
                    /\ result[p][1].hostname = service_name[p]
                    /\ publish_port[p] # None
                         => /\ Len(s) = 1
                            /\ result[p][1].exposed_port = Some(publish_port[p][1])
                    /\ publish_port[p] = None
                         => result[p][1].exposed_port = None

\* C16 happens: a service with a published port is returned.
C16_Witness ==
  /\ InCreate(1) /\ pc[1] = "done" /\ publish_port[1] # None
  /\ Len(Calls(1, CreateNamespacedService)) = 1

\* C16 happens without a port too.
C16_WitnessNoPort == InCreate(1) /\ pc[1] = "done" /\ publish_port[1] = None

----------------------------------------------------------------------------
(* create_service: order of the creations, sleeps, termination *)

CreateApis == {CreateNamespacedService, CreateNamespacedDeployment}

\* Network-service creation failed on its last attempt.
ServiceCreationFailed(p) ==
  /\ InCreate(p) /\ publish_port[p] # None /\ pc[p] = "raised"
  /\ func[p] = CreateNamespacedService

\* No workload-creation attempt is made until a network-service creation
\* attempt has succeeded.
ServicePrecedesWorkload(p) ==
  \A j \in 1..Len(log[p]) :
    log[p][j].api = CreateNamespacedDeployment
      => \E i \in 1..(j - 1) :
           log[p][i].api = CreateNamespacedService /\ ~Failed(log[p][i])

\* C17 as claimed: with publish_port present no workload-creation attempt
\* precedes a successful network-service creation attempt, and if
\* network-service creation fails on all RETRY_TIMES + 1 attempts, workload
\* creation is never attempted, the error propagates, and no resource named
\* service_name has been created by the call.
C17_FailedServiceCreatesNothing ==
  \A p \in Procs :
    (InCreate(p) /\ publish_port[p] # None)
      => /\ ServicePrecedesWorkload(p)
         /\ ServiceCreationFailed(p)
              => /\ Len(Calls(p, CreateNamespacedService)) = RETRY_TIMES + 1
                 /\ Len(Calls(p, CreateNamespacedDeployment)) = 0
                 /\ raised[p] = log[p][Len(log[p])].exc
                 /\ result[p] = None
                 /\ deployments = cluster_before[p][1].deployments
                 /\ services = cluster_before[p][1].services

\* C17 amended: the same, except that a network-service named service_name
\* has been created by the call exactly when one of the failed attempts
\* took effect at the control plane; no workload has been created.
C17_ServiceFirstThenWorkload ==
  \A p \in Procs :
    (InCreate(p) /\ publish_port[p] # None)
      => /\ ServicePrecedesWorkload(p)
         /\ ServiceCreationFailed(p)
              => LET s == Calls(p, CreateNamespacedService)
                 IN /\ Len(s) = RETRY_TIMES + 1
                    /\ AllFailed(s)
                    /\ Len(Calls(p, CreateNamespacedDeployment)) = 0
                    /\ raised[p] = s[Len(s)].exc
                    /\ raised[p] = log[p][Len(log[p])].exc
                    /\ result[p] = None
                    /\ deployments = cluster_before[p][1].deployments
                    /\ services = cluster_before[p][1].services
                         \cup (IF \E i \in 1..Len(s) : s[i].effect
                                 THEN {service_name[p]} ELSE {})

\* C17 happens: network-service creation failed six times without effect.
C17_Witness ==
  /\ ServiceCreationFailed(1)
  /\ services = cluster_before[1][1].services
  /\ service_name[1] \notin services

\* The case C17 left out happens: the call raised and created the
\* network-service.
C17_WitnessCreated ==
  /\ ServiceCreationFailed(1)
  /\ service_name[1] \in services
  /\ service_name[1] \notin cluster_before[1][1].services

\* The number of sleeps that follow an attempt of f.
SleepsAfter(p, f) ==
  Cardinality({i \in 2..Len(log[p]) :
                 log[p][i].api = SleepApi /\ log[p][i - 1].api = f})

\* C18: _retry sleeps the fixed wait interval once between each pair of
\* consecutive attempts and at no other time: f failures before a success
\* give f sleeps, RETRY_TIMES + 1 failures give RETRY_TIMES sleeps, none
\* after the final failure, and no sleep follows a successful attempt.
C18_SleepBetweenAttempts ==
  \A p \in Procs :
    InCreate(p)
      => LET l == log[p]
             n == Len(l)
         IN /\ \A i \in 1..n :
                 l[i].api = SleepApi
                   => /\ l[i].arg = Some(RETRY_WAIT_SECS)
                      /\ i > 1
                      /\ l[i - 1].api \in CreateApis
                      /\ Failed(l[i - 1])
                      /\ l[i - 1].no < RETRY_TIMES
                      /\ i = n => pc[p] = "retry_call"
                      /\ i < n => /\ l[i + 1].api = l[i - 1].api
                                  /\ l[i + 1].no = l[i - 1].no + 1
            /\ \A i \in 1..n :
                 l[i].api \in CreateApis
                   => /\ l[i].no > 0
                        => i > 2 /\ l[i - 1].api = SleepApi /\ l[i - 2].api = l[i].api
                      /\ (Failed(l[i]) /\ l[i].no < RETRY_TIMES)
                           => /\ i = n => pc[p] = "retry_sleep"
                              /\ i < n => l[i + 1].api = SleepApi
                      /\ (Failed(l[i]) /\ l[i].no = RETRY_TIMES)
                           => i = n /\ pc[p] = "raised"
                      /\ ~Failed(l[i])
                           => i = n \/ l[i + 1].api # SleepApi
            /\ \A f \in CreateApis :
                 LET a == Calls(p, f)
                 IN /\ (Len(a) > 0 /\ ~Failed(a[Len(a)]))
                         => SleepsAfter(p, f) = Len(a) - 1
                    /\ (Len(a) = RETRY_TIMES + 1 /\ AllFailed(a))
                         => SleepsAfter(p, f) = RETRY_TIMES

\* C18 happens: a run that exhausted its attempts after RETRY_TIMES sleeps,
\* following a run that succeeded after failures and as many sleeps.
C18_Witness ==
  /\ InCreate(1) /\ pc[1] = "raised"
  /\ SleepsAfter(1, CreateNamespacedDeployment) = RETRY_TIMES
  /\ SleepsAfter(1, CreateNamespacedService) = 2
  /\ Len(Calls(1, CreateNamespacedService)) = 3

\* The remote calls of the running create_service.
RemoteCalls(p) == SelectSeq(log[p], LAMBDA en : en.api # SleepApi)

AttemptsBounded ==
  \A p \in Procs :
    InCreate(p)
      => /\ Len(Calls(p, CreateNamespacedDeployment)) <= RETRY_TIMES + 1
         /\ Len(Calls(p, CreateNamespacedService)) <= RETRY_TIMES + 1
         /\ publish_port[p] = None => Len(Calls(p, CreateNamespacedService)) = 0
         /\ Len(RemoteCalls(p)) <= 2 * (RETRY_TIMES + 1)
         /\ \A i \in 1..Len(log[p]) : log[p][i].api \in CreateApis \cup {SleepApi}
         /\ pc[p] = "done" => result[p] # None /\ raised[p] = None
         /\ pc[p] = "raised" => result[p] = None /\ raised[p] # None

\* C19: every create_service invocation terminates, returning a
\* ContainerService or raising, under any pattern of control-plane failures,
\* after at most RETRY_TIMES + 1 workload-creation attempts and, with
\* publish_port present, at most RETRY_TIMES + 1 network-service creation
\* attempts: at most 2 * (RETRY_TIMES + 1) remote calls.
C19_Terminates ==
  /\ []AttemptsBounded
  /\ \A p \in {1} : InCreate(p) ~> Ended(p)

\* C19 happens: a call that ended after 2 * (RETRY_TIMES + 1) remote calls.
C19_Witness ==
  /\ InCreate(1) /\ Ended(1)
  /\ Len(RemoteCalls(1)) = 2 * (RETRY_TIMES + 1)

----------------------------------------------------------------------------
(* Names of the coupled resources *)

\* C20: the workload manifest's metadata name, selector matchLabels and
\* pod-template label, and with publish_port present the network-service
\* manifest's metadata name and selector, all carry service_name, so the
\* network-service selector equals the pod label of the workload created
\* by the same call.
C20_NamesConsistent ==
  \A p \in Procs :
    InCreate(p)
      => /\ deployment_config[p] # None
              => LET d == deployment_config[p][1]
                 IN /\ d.metadata.name = service_name[p]
                    /\ d.spec.selector.matchLabels = [name |-> service_name[p]]
                    /\ d.spec.template.metadata.labels = [name |-> service_name[p]]
         /\ service_config[p] # None
              => LET s == service_config[p][1]
                 IN /\ s.metadata.name = service_name[p]
                    /\ s.spec.selector = [name |-> service_name[p]]
         /\ (deployment_config[p] # None /\ service_config[p] # None)
              => service_config[p][1].spec.selector
                   = deployment_config[p][1].spec.template.metadata.labels
         /\ \A i \in 1..Len(log[p]) :
              /\ log[p][i].name = service_name[p]
              /\ log[p][i].api = CreateNamespacedService
                   => log[p][i].arg = service_config[p]
              /\ log[p][i].api = CreateNamespacedDeployment
                   => log[p][i].arg = deployment_config[p]

\* C20 happens: both manifests of one call were submitted and accepted.
C20_Witness ==
  /\ InCreate(1) /\ pc[1] = "done"
  /\ service_config[1] # None /\ deployment_config[1] # None
  /\ service_name[1] \in services \cap deployments

====
